---- MODULE Spec2Model ----
(***************************************************************************)
(* Model of src/src/utils/counter.ts: the sliding-window Counter and the   *)
(* ChartController (bar aggregation into time buckets, persistence of the  *)
(* finished per-source bars into chunks, recomputation of the series).     *)
(*                                                                         *)
(* JavaScript objects are records whose set of fields can grow: a field    *)
(* that was never assigned is absent from the record, and reading it gives *)
(* undefined.  Bar volumes, counts and prices are integers.  The numbers   *)
(* a series adapter produces are fractions [n, d], with d = 0 for the      *)
(* non-finite values: NaN is 0/0 and Infinity is 1/0.                      *)
(***************************************************************************)
EXTENDS Integers, Sequences, FiniteSets, TLC

\* ------------------------------------------------------------------ bounds
\* trades folded by renderRealtimeTrades over a whole behaviour
MaxTrades == 5
\* trades handed to one renderRealtimeTrades call
MaxBatch == 2

\* ---------------------------------------------------------------- settings
\* store.state.settings.timeframe: the bucket width, in seconds
Timeframe == 60
\* store.state.settings.timezoneOffset, in milliseconds
TimezoneOffset == 0
\* the bar-count cap of a chunk
MAX_BARS_PER_CHUNKS == 2
\* the window length of the rolling average of serie "avg"
AvgWindow == 2
\* the changes of the active sources and the rebuilds of a run
MaxToggles == 1
MaxRebuilds == 1
MaxQueued == 3
MaxTeardowns == 1
MaxSerieOps == 1
MaxSerieTrades == 3
\* calls of redrawSerie
MaxRedraws == 2
\* trades folded while the live data and the cache are cleared
MaxCacheTrades == 4

\* ------------------------------------------------------- JavaScript values
Null == 0 - 1
NullObj == [null |-> TRUE]
Undefined == [undefined |-> TRUE]
IsNull(o) == "null" \in DOMAIN o
IsUndefined(o) == "undefined" \in DOMAIN o
Has(o, k) == k \in DOMAIN o
Set(o, k, v) == [f \in DOMAIN o \cup {k} |-> IF f = k THEN v ELSE o[f]]
Remove(o, k) == [f \in DOMAIN o \ {k} |-> o[f]]
\* ToNumber(null) is 0 in a relational comparison
JsNum(x) == IF x = Null THEN 0 ELSE x
\* undefined where a number is expected
NoNumber == 0 - 2
\* a > b, which is false when either side is undefined
JsGreater(a, b) == a # NoNumber /\ b # NoNumber /\ JsNum(a) > JsNum(b)
Max(a, b) == IF a >= b THEN a ELSE b
Min(a, b) == IF a <= b THEN a ELSE b

NaN == [n |-> 0, d |-> 0]
Infinity == [n |-> 1, d |-> 0]
Num(x) == [n |-> x, d |-> 1]
IsNumber(v) == Has(v, "n")
\* isNaN(v): null converts to 0, undefined to NaN
IsNaN(v) == IF IsNumber(v) THEN v.n = 0 /\ v.d = 0 ELSE IsUndefined(v)
IsZero(v) == IsNumber(v) /\ v.n = 0 /\ v.d # 0
Add(a, b) ==
  IF IsNaN(a) \/ IsNaN(b) \/ ~IsNumber(a) \/ ~IsNumber(b) THEN NaN
  ELSE [n |-> a.n * b.d + b.n * a.d, d |-> a.d * b.d]
Sub(a, b) ==
  IF IsNaN(a) \/ IsNaN(b) \/ ~IsNumber(a) \/ ~IsNumber(b) THEN NaN
  ELSE [n |-> a.n * b.d - b.n * a.d, d |-> a.d * b.d]
\* a / k for an integer k
Div(a, k) ==
  IF IsNaN(a) \/ ~IsNumber(a) THEN NaN
  ELSE IF k = 0 THEN (IF a.n = 0 THEN NaN ELSE Infinity)
  ELSE [n |-> a.n, d |-> a.d * k]

\* ------------------------------------------------------------------ trades
Pair == "usd"
Trade(exchange, side, liquidation, price, size, timestamp) ==
  [exchange |-> exchange, pair |-> Pair, side |-> side, liquidation |-> liquidation,
   price |-> price, size |-> size, timestamp |-> timestamp]
\* what the transport delivers: timestamps are milliseconds
Feed ==
  { Trade("A", "buy", FALSE, 100, 1, 0),
    Trade("B", "sell", FALSE, 102, 2, 10000),
    Trade("A", "buy", FALSE, 101, 1, 65000),
    Trade("B", "sell", TRUE, 100, 1, 65000),
    Trade("A", "sell", FALSE, 102, 2, 125000),
    Trade("A", "buy", FALSE, 103, 1, 185000) }
Identifier(trade) == trade.exchange \o trade.pair
Identifiers == {Identifier(t) : t \in Feed}
BucketOf(trade) == (trade.timestamp \div (1000 * Timeframe)) * Timeframe

VolumeFields == {"vbuy", "vsell", "cbuy", "csell", "lbuy", "lsell"}

VARIABLES
  \* ChartController fields
  chartInstance,      \* the chart widget was created (createChart)
  activeSeries,       \* ActiveSerie[]
  activeRenderer,     \* the live Renderer, or NullObj
  activeChunk,        \* index in chunks of the active Chunk, 0 for none
  renderedRange,      \* TimeRange
  panPrevented,       \* the pan suppression flag
  releasePanTimeout,  \* the pan suppression timeout is pending
  queuedTrades,       \* Trade[] waiting for the drain
  preventRender,      \* lockRender was called
  releaseQueueInterval, \* the drain interval is running
  \* ChartCache fields
  chunks,             \* Chunk[] in cache order
  cacheRange,         \* the range the cache covers; to is its high-water mark
  \* collaborators
  activeExchanges,    \* store.state.app.activeExchanges: the keys whose value is true
  enabledSeries,      \* store.state.settings.series: the ids not disabled
  serieErrors,        \* the validation error channel: serie id -> message
  sink,               \* render sink calls of the last handler: <<op, id, point>>
  \* history of the run
  threw,              \* the last handler ended with an uncaught exception
  tradeLog,           \* the trades folded so far, each with the bucket it went to
  closes,             \* one record per completed live bucket close
  touched,            \* sources folded into the live bucket since it opened
  lastFolds,          \* the folds of the last renderRealtimeTrades call
  fed,                \* the number of trades handed to renderRealtimeTrades
  delivered,          \* the trades of the feed handed over so far
  toggles,            \* the number of changes of activeExchanges
  rebuilt,            \* one record per run of renderBars
  queuedLog,          \* every trade handed to queueTrades, in order
  tornDown,           \* clear or destroy returned and no handler ran since
  teardowns,          \* the number of calls of clear and destroy
  serieOps            \* the number of calls of toggleSerie, rebuildSerie and redraw

ctlVars ==
  <<chartInstance, activeSeries, activeRenderer, activeChunk, renderedRange,
    panPrevented, releasePanTimeout, chunks, cacheRange, activeExchanges,
    enabledSeries, serieErrors, sink, threw, tradeLog, closes, touched, lastFolds,
    fed, delivered, toggles, rebuilt, queuedTrades, preventRender,
    releaseQueueInterval, queuedLog, tornDown, teardowns, serieOps>>

\* ------------------------------------------------------------------ series
\* store.state.settings.series, in key order
SerieIds == <<"custom", "trend", "signal", "avg", "ratio", "bad">>
SerieSettings(id) ==
  CASE id = "avg" -> [type |-> "line", input |-> "avg(bar.vbuy + bar.vsell, AvgWindow)"]
    [] id = "ratio" -> [type |-> "line", input |-> "bar.vbuy / bar.vsell"]
    [] id = "signal" -> [type |-> "line", input |-> "bar.series.avg.value"]
    [] id = "trend" -> [type |-> "line", input |-> "bar.series.signal.value"]
    [] id = "bad" -> [type |-> "line", input |-> "bar.unknown"]
    [] id = "custom" -> [input |-> "bar.vbuy / bar.vsell"]
    [] OTHER -> [input |-> ""]

\* SerieTranspiler.transpile: the compiled model of a formula
transpile(serie) ==
  CASE serie.input = "avg(bar.vbuy + bar.vsell, AvgWindow)" ->
         [ok |-> TRUE,
          output |-> "avg", type |-> "value",
          functions |-> << [name |-> "avg", type |-> "average_function", arg |-> AvgWindow,
                            state |-> [points |-> << >>, sum |-> Num(0), count |-> 0]] >>,
          variables |-> << >>, references |-> << >>]
    [] serie.input = "bar.vbuy / bar.vsell" ->
         [ok |-> TRUE,
          output |-> "ratio", type |-> "value",
          functions |-> << >>, variables |-> << >>, references |-> << >>]
    [] serie.input = "bar.series.avg.value" ->
         [ok |-> TRUE,
          output |-> "signal", type |-> "value",
          functions |-> << >>, variables |-> << >>, references |-> <<"avg">>]
    [] serie.input = "bar.series.signal.value" ->
         [ok |-> TRUE,
          output |-> "trend", type |-> "value",
          functions |-> << >>, variables |-> << >>, references |-> <<"signal">>]
    [] OTHER -> [ok |-> FALSE, message |-> "unknown identifier"]

\* SerieTranspiler.updateInstructionsArgument: the window arguments of the
\* modelled formulas are literals, nothing to re-resolve
updateInstructionsArgument(functions) == functions

\* the closure SerieTranspiler.getAdapter compiles, applied to its arguments:
\* the point, and the instruction state it leaves
Adapter(serie, renderer, functions, variables) ==
  CASE serie.model.output = "avg" ->
         LET x == Num(renderer.bar.vbuy + renderer.bar.vsell)
             st == functions[1].state
         IN  [point |-> Div(Add(st.sum, x), st.count + 1),
              functions |-> [functions EXCEPT ![1].state = Set(st, "output", x)],
              variables |-> variables]
    [] serie.model.output = "ratio" ->
         [point |-> Div(Num(renderer.bar.vbuy), renderer.bar.vsell),
          functions |-> functions, variables |-> variables]
    [] serie.model.output = "signal" ->
         [point |-> renderer.series["avg"].value,
          functions |-> functions, variables |-> variables]
    [] serie.model.output = "trend" ->
         [point |-> renderer.series["signal"].value,
          functions |-> functions, variables |-> variables]
    [] OTHER -> [point |-> Undefined, functions |-> functions, variables |-> variables]

\* the adapter reads renderer.series[id].value of the series its formula
\* names: a TypeError when one of them is not bound to the renderer
AdapterThrows(serie, renderer) ==
  \E k \in DOMAIN serie.model.references :
    /\ serie.model.references[k] # serie.id
    /\ ~Has(renderer.series, serie.model.references[k])

prepareSerie(serie) ==
  LET res == transpile(serie)
      narrowed == res.ok /\ res.type = "ohlc" /\ serie.type \notin {"candlestick", "bar"}
      conflict == res.ok /\ res.type = "value" /\ serie.type \in {"candlestick", "bar"}
  IN  IF res.ok /\ ~conflict
      THEN [ok |-> TRUE, error |-> NullObj,
            serie |-> [serie EXCEPT !.model =
                         [output |-> IF narrowed THEN res.output \o ".close" ELSE res.output,
                          type |-> IF narrowed THEN "value" ELSE res.type,
                          functions |-> res.functions,
                          references |-> res.references,
                          variables |-> res.variables]]]
      ELSE [ok |-> FALSE,
            error |-> [message |-> IF res.ok THEN "code output is a single value but ohlc object was expected"
                                   ELSE res.message],
            serie |-> serie]

\* JSON.parse(JSON.stringify(v)) of a number: NaN and Infinity become null
jsonNumber(v) == IF IsNumber(v) /\ v.d = 0 THEN NullObj ELSE v

\* ... of the state of an instruction: an array of numbers, or an object
\* whose undefined fields are dropped
jsonState(type, st) ==
  IF type = "array" THEN [k \in DOMAIN st |-> jsonNumber(st[k])]
  ELSE [f \in {g \in DOMAIN st : g \in {"points", "count"} \/ ~IsUndefined(st[g])} |->
          IF f = "points" THEN [k \in DOMAIN st.points |-> jsonNumber(st.points[k])]
          ELSE IF f = "count" THEN st.count
          ELSE jsonNumber(st[f])]

\* ... of model.functions or model.variables
jsonInstructions(instructions) ==
  [k \in DOMAIN instructions |->
     [instructions[k] EXCEPT !.state = jsonState(instructions[k].type, @)]]

\* the objects that hold instruction state: the one of the compiled model of
\* a serie is its copy 0, the copies bindSerie makes are numbered from 1
ModelState(serie) == [serie |-> serie.id, copy |-> 0]

\* the instruction state a Renderer gets is the model's own object
sharedState(serie) ==
  [serie |-> serie,
   data |-> [value |-> NullObj, point |-> NullObj,
             functions |-> updateInstructionsArgument(serie.model.functions),
             variables |-> serie.model.variables,
             ref |-> ModelState(serie)]]

\* lines 683-692: the parsed copy of the model and the serie data made of it
clonedState(serie) ==
  [serie |-> [serie EXCEPT !.clones = @ + 1],
   data |-> [value |-> NullObj, point |-> NullObj,
             functions |-> updateInstructionsArgument(jsonInstructions(serie.model.functions)),
             variables |-> jsonInstructions(serie.model.variables),
             ref |-> [serie |-> serie.id, copy |-> serie.clones + 1]]]

boundSerie(renderer, made) ==
  [serie |-> [made.serie EXCEPT !.adapter = TRUE],
   renderer |-> [renderer EXCEPT !.series = Set(@, made.serie.id, made.data)]]

\* bindSerie: the serie and the renderer it leaves
bindSerie(serie, renderer) ==
  IF IsNull(renderer) \/ Has(renderer.series, serie.id) \/ IsNull(serie.model)
  THEN [serie |-> serie, renderer |-> renderer]
  ELSE boundSerie(renderer, clonedState(serie))

unbindSerie(serie, renderer) ==
  IF IsNull(renderer) \/ ~Has(renderer.series, serie.id) THEN renderer
  ELSE [renderer EXCEPT !.series = Remove(@, serie.id)]

\* ----------------------------------------------------------- bars, renderer
ZeroBar == [vbuy |-> 0, vsell |-> 0, cbuy |-> 0, csell |-> 0, lbuy |-> 0, lsell |-> 0]
\* the truth value of bar.empty
EmptyFlag(bar) == Has(bar, "empty") /\ bar.empty

resetBar(bar) ==
  [f \in DOMAIN bar \cup {"open", "high", "low", "empty"} \cup VolumeFields |->
     CASE f \in {"open", "high", "low"} -> bar.close
       [] f \in VolumeFields -> 0
       [] f = "empty" -> FALSE
       [] OTHER -> bar[f]]

resetRendererBar(renderer) ==
  LET r == [renderer EXCEPT !.bar = Set(ZeroBar, "hasData", FALSE)]
  IN  IF Has(r, "exchanges")
      THEN [r EXCEPT !.exchanges = [e \in DOMAIN r.exchanges |-> resetBar(r.exchanges[e])]]
      ELSE r

cloneSourceBar(sourceBar, timestamp) ==
  LET fields == {"open", "high", "low", "close"} \cup VolumeFields \cup {"pair", "exchange"}
      copied == [f \in fields \cap DOMAIN sourceBar |-> sourceBar[f]]
  IN  IF timestamp # 0 THEN Set(copied, "timestamp", timestamp)
      ELSE IF Has(sourceBar, "timestamp") THEN Set(copied, "timestamp", sourceBar.timestamp)
      ELSE copied

\* createRenderer binds the series (all, or the listed ones) to a new Renderer;
\* rec.series is the list of series so far, rec.renderer the Renderer
RECURSIVE bindAll(_, _, _)
bindAll(rec, series, i) ==
  IF i > Len(rec.series) THEN rec
  ELSE IF ~IsNull(series) /\ rec.series[i].id \notin series.ids
       THEN bindAll(rec, series, i + 1)
       ELSE LET b == bindSerie(rec.series[i], rec.renderer)
            IN  bindAll([series |-> [rec.series EXCEPT ![i] = b.serie],
                         renderer |-> b.renderer], series, i + 1)

createRenderer(series_, firstBarTimestamp, series) ==
  bindAll([series |-> series_,
           renderer |-> [timestamp |-> firstBarTimestamp,
                         series |-> << >>,
                         sources |-> << >>,
                         sourceKeys |-> << >>,
                         bar |-> ZeroBar]],
          series, 1)

\* nextBar, the bucket-advance of one instruction
advanceFunction(instruction) ==
  IF instruction.type = "average_function"
  THEN LET st == instruction.state
           output == IF Has(st, "output") THEN st.output ELSE Undefined
           points == Append(st.points, output)
           sum == Add(st.sum, output)
           count == st.count + 1
       IN  IF count > instruction.arg
           THEN [instruction EXCEPT !.state =
                   [st EXCEPT !.points = Tail(points), !.sum = Sub(sum, Head(points)),
                              !.count = count - 1]]
           ELSE [instruction EXCEPT !.state =
                   [st EXCEPT !.points = points, !.sum = sum, !.count = count]]
  ELSE IF instruction.type = "ohlc"
  THEN [instruction EXCEPT !.state =
          [f \in DOMAIN @ \cup {"open", "high", "low"} |->
             IF f \in {"open", "high", "low"}
             THEN (IF Has(@, "close") THEN @.close ELSE Undefined)
             ELSE @[f]]]
  ELSE instruction

advanceVariable(instruction) ==
  IF instruction.type = "array"
  THEN LET st == instruction.state
           grown == <<IF Len(st) > 0 THEN st[1] ELSE Undefined>> \o st
       IN  [instruction EXCEPT !.state =
              IF Len(grown) > instruction.arg THEN SubSeq(grown, 1, Len(grown) - 1) ELSE grown]
  ELSE instruction

RECURSIVE advanceSeries(_, _, _)
advanceSeries(series_, renderer, i) ==
  IF i > Len(series_) THEN renderer
  ELSE LET id == series_[i].id
       IN  IF ~Has(renderer.series, id) THEN advanceSeries(series_, renderer, i + 1)
           ELSE advanceSeries(series_,
                  [renderer EXCEPT !.series[id] =
                     [@ EXCEPT !.functions = [f \in DOMAIN @ |-> advanceFunction(@[f])],
                               !.variables = [v \in DOMAIN @ |-> advanceVariable(@[v])]]],
                  i + 1)

nextBar(series_, timestamp, renderer) ==
  LET advanced == IF ~EmptyFlag(renderer.bar) THEN advanceSeries(series_, renderer, 1)
                  ELSE renderer
  IN  resetRendererBar([advanced EXCEPT !.timestamp = timestamp])

\* -------------------------------------------------------------- controller
\* the controller, its cache and the history of the run as one record
Ctl ==
  [chartInstance |-> chartInstance, activeSeries |-> activeSeries,
   activeRenderer |-> activeRenderer, activeChunk |-> activeChunk,
   renderedRange |-> renderedRange, panPrevented |-> panPrevented,
   releasePanTimeout |-> releasePanTimeout, chunks |-> chunks,
   cacheRange |-> cacheRange, activeExchanges |-> activeExchanges,
   enabledSeries |-> enabledSeries, serieErrors |-> serieErrors, sink |-> sink,
   threw |-> threw, tradeLog |-> tradeLog, closes |-> closes, touched |-> touched,
   lastFolds |-> lastFolds, fed |-> fed, delivered |-> delivered, toggles |-> toggles,
   rebuilt |-> rebuilt, queuedTrades |-> queuedTrades, preventRender |-> preventRender,
   releaseQueueInterval |-> releaseQueueInterval, queuedLog |-> queuedLog,
   tornDown |-> tornDown, teardowns |-> teardowns, serieOps |-> serieOps]

Commit(s) ==
  /\ chartInstance' = s.chartInstance
  /\ activeSeries' = s.activeSeries
  /\ activeRenderer' = s.activeRenderer
  /\ activeChunk' = s.activeChunk
  /\ renderedRange' = s.renderedRange
  /\ panPrevented' = s.panPrevented
  /\ releasePanTimeout' = s.releasePanTimeout
  /\ chunks' = s.chunks
  /\ cacheRange' = s.cacheRange
  /\ activeExchanges' = s.activeExchanges
  /\ enabledSeries' = s.enabledSeries
  /\ serieErrors' = s.serieErrors
  /\ sink' = s.sink
  /\ threw' = s.threw
  /\ tradeLog' = s.tradeLog
  /\ closes' = s.closes
  /\ touched' = s.touched
  /\ lastFolds' = s.lastFolds
  /\ fed' = s.fed
  /\ delivered' = s.delivered
  /\ toggles' = s.toggles
  /\ rebuilt' = s.rebuilt
  /\ queuedTrades' = s.queuedTrades
  /\ preventRender' = s.preventRender
  /\ releaseQueueInterval' = s.releaseQueueInterval
  /\ queuedLog' = s.queuedLog
  /\ tornDown' = s.tornDown
  /\ teardowns' = s.teardowns
  /\ serieOps' = s.serieOps

\* a handler starts: the records of the previous handler are dropped
Enter(s) ==
  [s EXCEPT !.sink = << >>, !.threw = FALSE, !.lastFolds = << >>, !.tornDown = FALSE]

preventPan(s) ==
  IF s.panPrevented THEN s
  ELSE [s EXCEPT !.panPrevented = TRUE, !.releasePanTimeout = TRUE]

\* computeBar, one serie of its loop.  acc.r is the Renderer being computed,
\* acc.s.activeRenderer the live one (stale while the live one is computed)
classifyPoint(acc, serie, live, value, point, r1) ==
  IF IsNaN(value)
  THEN [acc EXCEPT
          !.r = IF live THEN unbindSerie(serie, r1) ELSE r1,
          !.s = [acc.s EXCEPT
                   !.activeRenderer = IF live THEN @ ELSE unbindSerie(serie, @),
                   !.serieErrors = Set(@, serie.id, serie.id \o " is NaN")],
          !.points = Set(@, serie.id, point)]
  ELSE IF IsNull(value) \/ (serie.type = "histogram" /\ IsZero(value))
  THEN [acc EXCEPT !.r = r1, !.points = Remove(@, serie.id)]
  ELSE [acc EXCEPT !.r = r1, !.points = Set(@, serie.id, point)]

adaptedSerie(acc, serie, live, out) ==
  LET serieData == acc.r.series[serie.id]
      type == serie.model.type
      time == acc.r.timestamp + TimezoneOffset \div 1000
      field(k) == IF Has(out.point, k) THEN out.point[k] ELSE Undefined
      value == CASE type = "value" -> out.point
                 [] type = "ohlc" -> field("close")
                 [] OTHER -> field("value")
      point == CASE type = "value" -> [time |-> time, value |-> out.point]
                 [] type = "ohlc" -> [time |-> time, open |-> field("open"), high |-> field("high"),
                                      low |-> field("low"), close |-> field("close")]
                 [] OTHER -> Set(out.point, "time", time)
  IN  classifyPoint(acc, serie, live, value, point,
        [acc.r EXCEPT !.series[serie.id] =
           [serieData EXCEPT !.point = out.point, !.value = value,
                             !.functions = out.functions, !.variables = out.variables]])

computeSerie(acc, serie, live) ==
  IF ~Has(acc.r.series, serie.id) \/ ~serie.adapter \/ AdapterThrows(serie, acc.r)
  THEN [acc EXCEPT !.threw = TRUE]
  ELSE adaptedSerie(acc, serie, live,
         Adapter(serie, acc.r, acc.r.series[serie.id].functions,
                 acc.r.series[serie.id].variables))

RECURSIVE computeLoop(_, _, _, _)
computeLoop(acc, series, live, i) ==
  IF acc.threw \/ i > Len(acc.s.activeSeries) THEN acc
  ELSE IF ~IsNull(series) /\ acc.s.activeSeries[i].id \notin series.ids
       THEN computeLoop(acc, series, live, i + 1)
       ELSE computeLoop(computeSerie(acc, acc.s.activeSeries[i], live), series, live, i + 1)

\* the live Renderer computeBar leaves is written back to the controller
writeBack(acc, live) == IF live THEN [acc EXCEPT !.s.activeRenderer = acc.r] ELSE acc

\* computeBar: [s, r, points, threw]
computeBar(s, renderer, series, live) ==
  writeBack(computeLoop([s |-> s, r |-> renderer, points |-> << >>, threw |-> FALSE],
                        series, live, 1), live)

\* ChartCache.saveChunk: appends the chunk, which becomes the last one
saveChunk(s, chunk) ==
  [s EXCEPT !.chunks = Append(@, chunk),
            !.cacheRange = [from |-> IF @.from = Null THEN chunk.from ELSE @.from,
                            to |-> chunk.to],
            !.activeChunk = Len(s.chunks) + 1]

\* renderRealtimeTrades, lines 917-953: the chunk the closing bucket goes to
selectChunk(s) ==
  LET ts == s.activeRenderer.timestamp
      full == /\ s.activeChunk # 0
              /\ s.chunks[s.activeChunk].to < ts
              /\ Len(s.chunks[s.activeChunk].bars) >= MAX_BARS_PER_CHUNKS
  IN  IF ~(s.activeChunk = 0 \/ full) THEN s
      ELSE IF s.activeChunk = 0 /\ s.cacheRange.to = ts
      THEN IF Len(s.chunks) = 0 THEN [s EXCEPT !.threw = TRUE]
           ELSE [s EXCEPT !.chunks[Len(s.chunks)].active = TRUE, !.activeChunk = Len(s.chunks)]
      ELSE saveChunk(IF s.activeChunk # 0
                     THEN [s EXCEPT !.chunks[s.activeChunk].active = FALSE]
                     ELSE s,
                     [from |-> ts, to |-> ts, active |-> TRUE, rendered |-> TRUE,
                      bars |-> << >>])

\* lines 960-964: the clones of the sources whose empty flag is not set
RECURSIVE snapshotBars(_, _)
snapshotBars(renderer, i) ==
  IF i > Len(renderer.sourceKeys) THEN << >>
  ELSE (IF ~EmptyFlag(renderer.sources[renderer.sourceKeys[i]])
        THEN <<cloneSourceBar(renderer.sources[renderer.sourceKeys[i]], renderer.timestamp)>>
        ELSE << >>)
       \o snapshotBars(renderer, i + 1)

\* lines 966-972: the ranges move to the closed bucket, the Renderer to the
\* next one; the close is recorded
advanceBucket(st, s, computed, points, bars, next) ==
  [s |-> [s EXCEPT
            !.chunks[s.activeChunk].bars = @ \o bars,
            !.chunks[s.activeChunk].to = s.activeRenderer.timestamp,
            !.cacheRange.to = s.activeRenderer.timestamp,
            !.renderedRange.to = IF JsNum(@) < s.activeRenderer.timestamp
                                 THEN s.activeRenderer.timestamp ELSE @,
            !.activeRenderer = next,
            !.touched = {},
            !.closes = Append(@,
               [timestamp |-> s.activeRenderer.timestamp,
                bar |-> s.activeRenderer.bar,
                sources |-> s.activeRenderer.sources,
                touched |-> s.touched,
                active |-> s.activeExchanges,
                computed |-> computed,
                points |-> points,
                persisted |-> bars,
                chunk |-> s.activeChunk,
                was |-> [activeChunk |-> st.s.activeChunk, chunks |-> st.s.chunks],
                selected |-> s.chunks,
                series |-> s.activeRenderer.series,
                opened |-> next.sources,
                openedSeries |-> next.series])],
   formatedBars |-> IF computed THEN Append(st.formatedBars, points) ELSE st.formatedBars]

\* lines 955-972, after computeBar
persistBucket(st, timestamp, computed, c) ==
  IF c.threw THEN [st EXCEPT !.s = [c.s EXCEPT !.threw = TRUE]]
  ELSE advanceBucket(st, c.s, computed, c.points, snapshotBars(c.s.activeRenderer, 1),
                     nextBar(c.s.activeSeries, timestamp, c.s.activeRenderer))

\* lines 955-972, after the chunk was selected
computeBucket(st, timestamp, s) ==
  IF s.threw THEN [st EXCEPT !.s = s]
  ELSE IF ~EmptyFlag(s.activeRenderer.bar)
  THEN persistBucket(st, timestamp, TRUE, computeBar(s, s.activeRenderer, NullObj, TRUE))
  ELSE persistBucket(st, timestamp, FALSE,
                     [s |-> s, r |-> s.activeRenderer, points |-> << >>, threw |-> FALSE])

\* lines 916-972: the live bucket closes and the Renderer moves to timestamp.
\* st is [s, formatedBars]
closeBucket(st, timestamp) == computeBucket(st, timestamp, selectChunk(st.s))

side(trade, prefix) == prefix \o trade.side

\* lines 982-1017: the trade goes into its SourceBar
foldSource(source, trade, amount) ==
  IF trade.liquidation
  THEN [source EXCEPT !.empty = FALSE, ![side(trade, "l")] = @ + amount]
  ELSE [source EXCEPT !.empty = FALSE,
                      !.high = Max(@, trade.price),
                      !.low = Min(@, trade.price),
                      !.close = trade.price,
                      ![side(trade, "c")] = @ + 1,
                      ![side(trade, "v")] = @ + amount]

\* lines 998-1001 and 1013-1017: the trade of an active source goes into the
\* CombinedBar
foldCombined(bar, trade, amount) ==
  IF trade.liquidation
  THEN Set([bar EXCEPT ![side(trade, "l")] = @ + amount], "empty", FALSE)
  ELSE Set([bar EXCEPT ![side(trade, "v")] = @ + amount, ![side(trade, "c")] = @ + 1],
           "empty", FALSE)

\* lines 980-1017
foldInto(renderer, trade, isActive) ==
  LET identifier == Identifier(trade)
      amount == trade.price * trade.size
      isNew == ~Has(renderer.sources, identifier)
  IN  [renderer EXCEPT
         !.sources = Set(@, identifier,
                         foldSource(IF isNew
                                    THEN resetBar([exchange |-> trade.exchange,
                                                   close |-> trade.price])
                                    ELSE @[identifier],
                                    trade, amount)),
         !.sourceKeys = IF isNew THEN Append(@, identifier) ELSE @,
         !.bar = IF isActive THEN foldCombined(@, trade, amount) ELSE @]

\* a source's activity decides nothing: every trade is mirrored
foldTradeUnfiltered(renderer, trade, isActive) == foldInto(renderer, trade, TRUE)

\* lines 993-1017: isActive is store.state.app.activeExchanges[identifier]
foldTrade(renderer, trade, isActive) == foldInto(renderer, trade, isActive)

\* a bucket opens whenever the trade's bucket differs from the live one
opensBucketOnChange(renderer, timestamp) ==
  IsNull(renderer) \/ renderer.timestamp # timestamp

\* line 915: the trade opens a bucket
opensBucket(renderer, timestamp) == IsNull(renderer) \/ renderer.timestamp < timestamp

\* line 974
firstRenderer(st, made) ==
  [st EXCEPT !.s.activeRenderer = made.renderer, !.s.activeSeries = made.series]

panAfter(st) == IF st.s.threw THEN st ELSE [st EXCEPT !.s = preventPan(st.s)]

\* lines 915-978
openBucket(st, timestamp) ==
  IF ~opensBucket(st.s.activeRenderer, timestamp) THEN st
  ELSE IF ~IsNull(st.s.activeRenderer) THEN panAfter(closeBucket(st, timestamp))
  ELSE panAfter(firstRenderer(st, createRenderer(st.s.activeSeries, timestamp, NullObj)))

recordFold(st, trade, before, closesBefore, folded) ==
  [st EXCEPT
     !.s.activeRenderer = folded,
     !.s.touched = @ \cup {Identifier(trade)},
     !.s.tradeLog = Append(@, [trade |-> trade, bucket |-> folded.timestamp]),
     !.s.lastFolds = Append(@,
        [trade |-> trade, bucket |-> BucketOf(trade),
         closesBefore |-> closesBefore, closesAfter |-> Len(st.s.closes),
         before |-> before, advanced |-> st.s.activeRenderer, after |-> folded])]

foldStep(st, trade, before, closesBefore) ==
  IF st.s.threw THEN st
  ELSE recordFold(st, trade, before, closesBefore,
                  foldTrade(st.s.activeRenderer, trade,
                            Identifier(trade) \in st.s.activeExchanges))

\* one iteration of the loop of renderRealtimeTrades
renderTrade(st, trade) ==
  foldStep(openBucket(st, BucketOf(trade)), trade, st.s.activeRenderer, Len(st.s.closes))

RECURSIVE renderLoop(_, _, _)
renderLoop(st, trades, i) ==
  IF st.s.threw \/ i > Len(trades) THEN st
  ELSE renderLoop(renderTrade(st, trades[i]), trades, i + 1)

\* updateBar: the points of one computed bar go to the render sink
RECURSIVE updateBar(_, _, _)
updateBar(s, bar, i) ==
  IF i > Len(s.activeSeries) THEN s
  ELSE updateBar(IF Has(bar, s.activeSeries[i].id)
                 THEN [s EXCEPT !.sink = Append(@, <<"update", s.activeSeries[i].id,
                                                     bar[s.activeSeries[i].id]>>)]
                 ELSE s, bar, i + 1)

RECURSIVE updateBars(_, _, _)
updateBars(s, formatedBars, i) ==
  IF i > Len(formatedBars) THEN s
  ELSE updateBars(updateBar(s, formatedBars[i], 1), formatedBars, i + 1)

\* lines 1020-1030, after computeBar
emitLive(st, c) ==
  IF c.threw THEN [c.s EXCEPT !.threw = TRUE]
  ELSE updateBars([c.s EXCEPT !.renderedRange.to =
                     IF JsNum(@) < c.s.activeRenderer.timestamp
                     THEN c.s.activeRenderer.timestamp ELSE @],
                  Append(st.formatedBars, c.points), 1)

\* lines 1020-1030
finishBatch(st) ==
  IF st.s.threw THEN st.s
  ELSE IF EmptyFlag(st.s.activeRenderer.bar) THEN updateBars(st.s, st.formatedBars, 1)
  ELSE emitLive(st, computeBar(st.s, st.s.activeRenderer, NullObj, TRUE))

renderRealtimeTrades(s, trades) ==
  IF Len(trades) = 0 THEN s
  ELSE finishBatch(renderLoop([s |-> s, formatedBars |-> << >>], trades, 1))

\* addSerie, lines 597-611: the serie is created in the render sink, listed
\* and bound to the live Renderer
listSerie(s, id, bound) ==
  [s EXCEPT !.serieErrors = Remove(@, id),
            !.sink = Append(@, <<"addSeries", id, NullObj>>),
            !.activeSeries = Append(@, bound.serie),
            !.activeRenderer = bound.renderer]

\* the result of prepareSerie is not looked at
preparedSerieUnchecked(s, id, prepared) ==
  listSerie(IF prepared.ok THEN s
            ELSE [s EXCEPT !.serieErrors = Set(@, id, prepared.error.message)],
            id, bindSerie([prepared.serie EXCEPT !.api = TRUE], s.activeRenderer))

\* lines 595-611
preparedSerie(s, id, prepared) ==
  IF ~prepared.ok THEN [s EXCEPT !.serieErrors = Set(@, id, prepared.error.message)]
  ELSE listSerie(s, id, bindSerie([prepared.serie EXCEPT !.api = TRUE], s.activeRenderer))

addSerie(s, id) ==
  IF ~Has(SerieSettings(id), "type") THEN [s EXCEPT !.threw = TRUE]
  ELSE preparedSerie(s, id,
         prepareSerie([id |-> id, type |-> SerieSettings(id).type,
                       input |-> SerieSettings(id).input, enabled |-> FALSE,
                       model |-> NullObj, api |-> FALSE, adapter |-> FALSE,
                       clones |-> 0]))

RECURSIVE addEnabledSeries(_, _)
addEnabledSeries(s, i) ==
  IF s.threw \/ i > Len(SerieIds) THEN s
  ELSE addEnabledSeries(IF SerieIds[i] \in s.enabledSeries THEN addSerie(s, SerieIds[i]) ELSE s,
                        i + 1)

createChart(s) == addEnabledSeries([s EXCEPT !.chartInstance = TRUE], 1)

\* ------------------------------------------------------------------ rebuild
BarTimestamp(bar) == IF Has(bar, "timestamp") THEN bar.timestamp ELSE NoNumber
HasData(bar) == Has(bar, "hasData") /\ bar.hasData

\* lines 1089-1095: the points of one computed bar join computedSeries
pushPoints(computedSeries, points) ==
  [id \in DOMAIN computedSeries \cup DOMAIN points |->
     (IF Has(computedSeries, id) THEN computedSeries[id] ELSE << >>)
       \o (IF Has(points, id) THEN <<points[id]>> ELSE << >>)]

\* lines 1081-1095, after computeBar.  acc is
\* [s, r, computedSeries, from, to, bars, threw], r the temporary Renderer
collectBar(acc, c) ==
  IF c.threw THEN [acc EXCEPT !.s = c.s, !.threw = TRUE]
  ELSE [acc EXCEPT !.s = c.s,
                   !.r = c.r,
                   !.computedSeries = pushPoints(@, c.points),
                   !.from = IF @ = Null THEN acc.r.timestamp ELSE @,
                   !.to = acc.r.timestamp,
                   !.bars = Append(@, [timestamp |-> acc.r.timestamp, bar |-> acc.r.bar])]

\* lines 1080-1096: the bucket of the temporary Renderer is computed
flushBucket(acc, series) ==
  IF acc.threw \/ IsNull(acc.r) \/ ~HasData(acc.r.bar) THEN acc
  ELSE collectBar(acc, computeBar(acc.s, acc.r, series, FALSE))

temporaryRenderer(acc, made) ==
  [acc EXCEPT !.r = made.renderer, !.created = made.renderer,
              !.s.activeSeries = made.series]

\* lines 1101-1105
moveOn(acc, bar, series) ==
  IF acc.threw THEN acc
  ELSE IF IsNull(acc.r)
  THEN temporaryRenderer(acc, createRenderer(acc.s.activeSeries, BarTimestamp(bar), series))
  ELSE [acc EXCEPT !.r = nextBar(acc.s.activeSeries, BarTimestamp(bar), acc.r)]

\* lines 1109-1121: the bar of an active exchange is added to the CombinedBar
\* and stored in temporaryRenderer.exchanges, a TypeError when that is undefined
mergeBar(acc, bar) ==
  IF acc.threw \/ bar.exchange \notin acc.s.activeExchanges THEN acc
  ELSE IF ~Has(acc.r, "exchanges") THEN [acc EXCEPT !.threw = TRUE]
  ELSE [acc EXCEPT
          !.r.bar = [f \in DOMAIN @ \cup {"hasData"} |->
                       IF f = "hasData" THEN TRUE
                       ELSE IF f \in VolumeFields THEN @[f] + bar[f]
                       ELSE @[f]],
          !.r.exchanges = Set(@, bar.exchange, cloneSourceBar(bar, 0))]

\* lines 1076-1122, one iteration
barStep(acc, bar, series) ==
  mergeBar(IF IsNull(acc.r) \/ JsGreater(BarTimestamp(bar), acc.r.timestamp)
           THEN moveOn(flushBucket(acc, series), bar, series)
           ELSE acc,
           bar)

RECURSIVE barLoop(_, _, _, _)
barLoop(acc, bars, series, i) ==
  IF acc.threw THEN acc
  ELSE IF i > Len(bars) THEN flushBucket(acc, series)
  ELSE barLoop(barStep(acc, bars[i], series), bars, series, i + 1)

\* clearSerie, line 826, for every serie
RECURSIVE clearSeries(_, _)
clearSeries(s, i) ==
  IF i > Len(s.activeSeries) THEN s
  ELSE clearSeries([s EXCEPT !.sink = Append(@, <<"setData", s.activeSeries[i].id, << >>>>)],
                   i + 1)

\* clearChart, lines 775-785
clearChart(s) ==
  [clearSeries(preventPan(s), 1) EXCEPT !.renderedRange = [from |-> Null, to |-> Null]]

RECURSIVE setSeries(_, _, _)
setSeries(s, computedSeries, i) ==
  IF i > Len(s.activeSeries) THEN s
  ELSE setSeries(IF /\ Has(computedSeries, s.activeSeries[i].id)
                    /\ Len(computedSeries[s.activeSeries[i].id]) > 0
                 THEN [s EXCEPT !.sink = Append(@, <<"setData", s.activeSeries[i].id,
                                                     computedSeries[s.activeSeries[i].id]>>)]
                 ELSE s,
                 computedSeries, i + 1)

\* replaceData, lines 1248-1256
replaceData(s, computedSeries) == setSeries(preventPan(s), computedSeries, 1)

\* lines 1137-1143: the live Renderer takes the series of the temporary one
adoptRenderer(s, renderer) == [s EXCEPT !.activeRenderer = renderer]

\* lines 1137-1143
adoptSeries(s, renderer) ==
  IF IsNull(s.activeRenderer) THEN [s EXCEPT !.activeRenderer = renderer]
  ELSE [s EXCEPT !.activeRenderer.series =
          [id \in DOMAIN @ \cup DOMAIN renderer.series |->
             IF Has(renderer.series, id) THEN renderer.series[id] ELSE @[id]]]

\* the run of renderBars is recorded
recordRebuild(s, acc, series) ==
  [s EXCEPT !.rebuilt = Append(@,
     [bars |-> acc.bars, threw |-> acc.threw, series |-> series,
      closes |-> Len(s.closes), active |-> s.activeExchanges, toggles |-> s.toggles,
      full |-> \A k \in DOMAIN s.chunks : s.chunks[k].rendered,
      before |-> acc.live, errors |-> acc.errors,
      created |-> acc.created, temporary |-> acc.r,
      after |-> s.activeRenderer])]

\* lines 1124-1143
finishRender(acc, series) ==
  IF acc.threw THEN recordRebuild([acc.s EXCEPT !.threw = TRUE], acc, series)
  ELSE recordRebuild(
         adoptSeries(replaceData(IF IsNull(series)
                                 THEN [clearChart(acc.s) EXCEPT
                                         !.renderedRange = [from |-> acc.from, to |-> acc.to]]
                                 ELSE acc.s,
                                 acc.computedSeries),
                     acc.r),
         acc, series)

\* renderBars, lines 1063-1144
renderBars(s, bars, series) ==
  IF Len(bars) = 0 THEN s
  ELSE finishRender(barLoop([s |-> s, live |-> s.activeRenderer,
                             errors |-> s.serieErrors,
                             r |-> NullObj, created |-> NullObj,
                             computedSeries |-> << >>,
                             from |-> Null, to |-> Null, bars |-> << >>, threw |-> FALSE],
                            bars, series, 1),
                    series)

\* the bars of the chunks marked as rendered, in cache order
RECURSIVE renderedBars(_, _)
renderedBars(chunks_, k) ==
  IF k > Len(chunks_) THEN << >>
  ELSE (IF chunks_[k].rendered THEN chunks_[k].bars ELSE << >>) \o renderedBars(chunks_, k + 1)

\* lines 1174-1185: from is the start of the visible range, Null for none
markRendered(s, from) ==
  [s EXCEPT !.chunks =
     [k \in DOMAIN s.chunks |->
        [s.chunks[k] EXCEPT
           !.rendered = (from = Null \/ s.chunks[k].to > from - Timeframe * 20)]]]

renderMarked(s) == renderBars(s, renderedBars(s.chunks, 1), NullObj)

\* renderVisibleChunks, lines 1149-1190
renderVisibleChunks(s, from) ==
  IF Len(s.chunks) = 0 \/ ~s.chartInstance THEN s
  ELSE renderMarked(markRendered(s, from))

\* -------------------------------------------------------- series management
\* getSerie, line 389: the index of the serie in activeSeries, 0 for undefined
getSerie(s, id) ==
  IF \E i \in DOMAIN s.activeSeries : s.activeSeries[i].id = id
  THEN CHOOSE i \in DOMAIN s.activeSeries :
         /\ s.activeSeries[i].id = id
         /\ \A j \in 1..(i - 1) : s.activeSeries[j].id # id
  ELSE 0

\* removeSerie, lines 726-748, of activeSeries[i]; nothing for undefined
removeSerie(s, i) ==
  IF i = 0 THEN s
  ELSE [s EXCEPT !.sink = Append(@, <<"removeSeries", s.activeSeries[i].id, NullObj>>),
                 !.activeRenderer = unbindSerie(s.activeSeries[i], @),
                 !.activeSeries = SubSeq(@, 1, i - 1) \o SubSeq(@, i + 1, Len(@))]

\* lines 460-462: getSeriesDependances hands out model.references itself, and
\* push adds the id to it
pushReference(s, i, id) ==
  [s EXCEPT !.activeSeries[i].model.references = Append(@, id)]

\* redrawSerie, lines 452-466, of activeSeries[i]
redrawActive(s, i, id) ==
  renderBars(pushReference(s, i, id), renderedBars(s.chunks, 1),
             [id |-> id,
              ids |-> {s.activeSeries[i].model.references[k] :
                         k \in DOMAIN s.activeSeries[i].model.references} \cup {id}])

\* redrawSerie: getSeriesDependances(undefined) is a TypeError
redrawSerie(s, id) ==
  IF getSerie(s, id) = 0 THEN [s EXCEPT !.threw = TRUE]
  ELSE redrawActive(s, getSerie(s, id), id)

\* if (this.addSerie(id)) { this.redrawSerie(id) }, s being the controller
\* before addSerie and added the one after it
redrawIfAdded(s, added, id) ==
  IF added.threw \/ Len(added.activeSeries) = Len(s.activeSeries) THEN added
  ELSE redrawSerie(added, id)

\* rebuildSerie, lines 440-446
rebuildAfterRemove(s, id) == redrawIfAdded(s, addSerie(s, id), id)
rebuildSerie(s, id) == rebuildAfterRemove(removeSerie(s, getSerie(s, id)), id)

\* toggleSerie, lines 756-770
toggleSerie(s, id) ==
  IF id \notin s.enabledSeries THEN removeSerie(s, getSerie(s, id))
  ELSE redrawIfAdded(s, addSerie(s, id), id)

\* ------------------------------------------------------- queue and teardown
\* queueTrades, lines 892-894
queueTrades(s, trades) ==
  [s EXCEPT !.queuedTrades = @ \o trades, !.queuedLog = @ \o trades]

\* line 871 is not reached when renderRealtimeTrades threw
spliceQueue(s) == IF s.threw THEN s ELSE [s EXCEPT !.queuedTrades = << >>]

\* releaseQueue, lines 865-872
releaseQueue(s) ==
  IF Len(s.queuedTrades) = 0 \/ s.preventRender THEN s
  ELSE spliceQueue(renderRealtimeTrades(s, s.queuedTrades))

\* setupQueue, lines 832-844, store.state.settings.chartRefreshRate being set
setupQueue(s) ==
  IF s.releaseQueueInterval THEN s ELSE [s EXCEPT !.releaseQueueInterval = TRUE]

\* clearQueue, lines 849-860
clearQueue(s) ==
  IF ~s.releaseQueueInterval THEN s
  ELSE releaseQueue([s EXCEPT !.releaseQueueInterval = FALSE])

\* lockRender and unlockRender, lines 877-886
lockRender(s) == [s EXCEPT !.preventRender = TRUE]
unlockRender(s) == [s EXCEPT !.preventRender = FALSE]

\* removeChart, lines 369-381
RECURSIVE removeSeries(_)
removeSeries(s) ==
  IF Len(s.activeSeries) = 0 THEN s ELSE removeSeries(removeSerie(s, 1))

removeChart(s) ==
  IF ~s.chartInstance THEN s ELSE [removeSeries(s) EXCEPT !.chartInstance = FALSE]

\* ChartCache.clear
clearCache(s) ==
  [s EXCEPT !.chunks = << >>, !.cacheRange = [from |-> Null, to |-> Null]]

\* clearData, lines 790-796
clearData(s) ==
  [s EXCEPT !.activeRenderer = NullObj, !.activeChunk = 0, !.queuedTrades = << >>,
            !.touched = {}]

\* clear, lines 801-807
clearAll(s) == clearChart(clearData(clearCache(s)))

\* destroy, lines 812-820
destroy(s) == clearQueue(removeChart(clearChart(clearData(clearCache(s)))))

\* ------------------------------------------------------------------ Counter
\* the sliding-window Counter: window and granularity in clock ticks
CounterWindow == 4
CounterGranularity == 2
Rates == {1, 2}
MaxTime == 10

MaxClears == 1

VARIABLES
  counter,     \* the fields of the Counter; a timeout handle is its deadline
  timers,      \* the handles of the timeouts that are pending in the runtime
  now, rate, steady, lastUpdate,
  cleared,     \* the Counter and the timers clear() was called on, while no
               \* update, expiry or tick followed
  clears       \* the number of calls of clear()
cntVars == <<counter, timers, now, rate, steady, lastUpdate, cleared, clears>>

\* Math.ceil(a * (1 - d / g)) for 0 <= d <= g
CeilShare(a, d, g) == (a * (g - d) + g - 1) \div g

\* clear, lines 66-77
clear(c) ==
  [c EXCEPT !.stacks = << >>, !.live = 0, !.filled = FALSE, !.remaining = 0,
            !.timeouts = << >>]

\* no timeout is cancelled
clearTimeoutsNone(c, pending) == pending

\* lines 72-74: clearTimeout for every handle the Counter holds
clearTimeouts(c, pending) == pending \ {c.timeouts[i] : i \in DOMAIN c.timeouts}

\* line 110: the handles setTimeout returned during an update
setTimeouts(c, after, pending) ==
  pending \cup ({after.timeouts[i] : i \in DOMAIN after.timeouts}
                  \ {c.timeouts[i] : i \in DOMAIN c.timeouts})

\* the slot is opened without a timeout
appendStackNoExpiry(c, timestamp, clock) ==
  [c EXCEPT !.stacks = Append(@, 0),
            !.timestamp = IF timestamp = 0 THEN clock ELSE timestamp,
            !.filled = @ \/ (Len(c.stacks) + 1) * CounterGranularity = CounterWindow]

\* appendStack, lines 101-115: clock is +new Date()
appendStack(c, timestamp, clock) ==
  [c EXCEPT !.stacks = Append(@, 0),
            !.timestamp = IF timestamp = 0 THEN clock ELSE timestamp,
            !.timeouts = Append(@, clock + CounterWindow),
            !.filled = @ \/ (Len(c.stacks) + 1) * CounterGranularity = CounterWindow]

\* addData, lines 135-138
addData(c, data) ==
  [c EXCEPT !.stacks[Len(c.stacks)] = @ + data, !.live = @ + data]

\* onStats, lines 85-99, value being outputFunction(stats)
onStats(c, timestamp, value, clock) ==
  addData(IF Len(c.stacks) = 0 \/ timestamp > c.timestamp + CounterGranularity
          THEN appendStack(c, timestamp, clock)
          ELSE IF c.filled /\ JsNum(c.remaining) # 0
          THEN [c EXCEPT
                  !.remaining = CeilShare(c.stacks[1], timestamp - c.timestamp,
                                          CounterGranularity),
                  !.live = @ - (c.remaining -
                                CeilShare(c.stacks[1], timestamp - c.timestamp,
                                          CounterGranularity))]
          ELSE c,
          value)

\* shiftStack, lines 117-133; an undefined remaining is Null
shiftStack(c) ==
  IF Len(c.stacks) = 0 \/ Head(c.stacks) = 0
  THEN [c EXCEPT !.timeouts = IF Len(@) = 0 THEN @ ELSE Tail(@),
                 !.stacks = IF Len(@) = 0 THEN @ ELSE Tail(@)]
  ELSE [c EXCEPT !.timeouts = IF Len(@) = 0 THEN @ ELSE Tail(@),
                 !.stacks = Tail(@),
                 !.live = IF JsNum(c.remaining) # 0 THEN @ - c.remaining ELSE @,
                 !.remaining = IF Len(c.stacks) > 1 THEN c.stacks[2] ELSE Null]

\* getValue, lines 140-142
getValue(c) == c.live

\* ----------------------------------------------------------------- actions
\* the feed delivers each of its trades once, in any order
Range(seq) == {seq[i] : i \in DOMAIN seq}
Batches ==
  {trades \in UNION {[1..n -> Feed] : n \in 1..MaxBatch} :
     Cardinality(Range(trades)) = Len(trades)}

CreateChart ==
  /\ ~chartInstance
  /\ Commit(createChart(Enter(Ctl)))
  /\ UNCHANGED cntVars

RenderRealtimeTrades ==
  \E trades \in Batches :
    /\ fed + Len(trades) <= MaxTrades
    /\ Range(trades) \cap delivered = {}
    /\ Commit(renderRealtimeTrades([Enter(Ctl) EXCEPT !.fed = @ + Len(trades),
                                                      !.delivered = @ \cup Range(trades)],
                                   trades))
    /\ UNCHANGED cntVars

\* one trade of the feed, not older than the trades before it
RenderNextTrade ==
  \E trade \in Feed :
    /\ fed < MaxTrades
    /\ \A other \in delivered : other.timestamp <= trade.timestamp /\ other # trade
    /\ Commit(renderRealtimeTrades([Enter(Ctl) EXCEPT !.fed = @ + 1,
                                                      !.delivered = @ \cup {trade}],
                                   <<trade>>))
    /\ UNCHANGED cntVars

\* the user switches a source on or off (store.state.app.activeExchanges)
ToggleSource ==
  \E id \in Identifiers :
    /\ toggles < MaxToggles
    /\ Commit([Ctl EXCEPT !.toggles = @ + 1,
                          !.activeExchanges = IF id \in @ THEN @ \ {id} ELSE @ \cup {id}])
    /\ UNCHANGED cntVars

\* the start of the visible range the chart reports: none, or one that
\* leaves the chunks ending at or before 60 out
VisibleFroms == {Null, 60 + Timeframe * 20}

\* the full rebuild
RenderVisibleChunks ==
  \E from \in VisibleFroms :
    /\ Len(rebuilt) < MaxRebuilds
    /\ Commit(renderVisibleChunks(Enter(Ctl), from))
    /\ UNCHANGED cntVars

\* the callback of the timeout preventPan sets
ReleasePan ==
  /\ releasePanTimeout
  /\ Commit([Ctl EXCEPT !.panPrevented = FALSE, !.releasePanTimeout = FALSE])
  /\ UNCHANGED cntVars

\* one trade of the ordered feed while series are managed
RenderSerieTrade ==
  /\ fed < MaxSerieTrades
  /\ RenderNextTrade

\* the user switches a serie on or off: the store flips its enabled setting
\* and calls toggleSerie
ToggleSerie ==
  \E id \in Range(SerieIds) :
    /\ chartInstance
    /\ serieOps < MaxSerieOps
    /\ Commit(toggleSerie([Enter(Ctl) EXCEPT
                             !.serieOps = @ + 1,
                             !.enabledSeries = IF id \in @ THEN @ \ {id} ELSE @ \cup {id}],
                           id))
    /\ UNCHANGED cntVars

\* the user retries a serie
RebuildSerie ==
  \E id \in Range(SerieIds) :
    /\ chartInstance
    /\ serieOps < MaxSerieOps
    /\ Commit(rebuildSerie([Enter(Ctl) EXCEPT !.serieOps = @ + 1], id))
    /\ UNCHANGED cntVars

\* redraw(), lines 485-487, within the same budget of user operations
Redraw ==
  \E from \in VisibleFroms :
    /\ chartInstance
    /\ serieOps < MaxSerieOps
    /\ Commit(renderVisibleChunks([Enter(Ctl) EXCEPT !.serieOps = @ + 1], from))
    /\ UNCHANGED cntVars

\* redrawSerie(id) on its own, for a serie of the chart
RedrawSerie ==
  \E i \in DOMAIN activeSeries :
    /\ serieOps < MaxRedraws
    /\ Commit(redrawSerie([Enter(Ctl) EXCEPT !.serieOps = @ + 1], activeSeries[i].id))
    /\ UNCHANGED cntVars

\* a batch of the feed arrives and is queued
QueueTrades ==
  \E trades \in Batches :
    /\ Len(queuedLog) + Len(trades) <= MaxQueued
    /\ Range(trades) \cap Range(queuedLog) = {}
    /\ Commit(queueTrades(Enter(Ctl), trades))
    /\ UNCHANGED cntVars

SetupQueue ==
  /\ ~releaseQueueInterval
  /\ Commit(setupQueue(Enter(Ctl)))
  /\ UNCHANGED cntVars

\* the callback of the drain interval, lines 839-843: _preventImmediateRender
\* is never set
DrainQueue ==
  /\ releaseQueueInterval
  /\ Len(queuedTrades) > 0
  /\ Len(tradeLog) + Len(queuedTrades) <= MaxTrades
  /\ Commit(releaseQueue([Ctl EXCEPT !.sink = << >>, !.threw = FALSE, !.lastFolds = << >>]))
  /\ UNCHANGED cntVars

ClearQueue ==
  /\ releaseQueueInterval
  /\ Len(tradeLog) + Len(queuedTrades) <= MaxTrades
  /\ Commit(clearQueue(Enter(Ctl)))
  /\ UNCHANGED cntVars

LockRender ==
  /\ ~preventRender
  /\ Commit(lockRender(Enter(Ctl)))
  /\ UNCHANGED cntVars

UnlockRender ==
  /\ preventRender
  /\ Commit(unlockRender(Enter(Ctl)))
  /\ UNCHANGED cntVars

\* clear(): the handler returned, tornDown says so
Clear ==
  /\ teardowns < MaxTeardowns
  /\ Commit([clearAll(Enter(Ctl)) EXCEPT !.tornDown = TRUE, !.teardowns = @ + 1])
  /\ UNCHANGED cntVars

\* a batch of the feed while the live data and the cache are cleared
RenderCacheTrades ==
  /\ fed + MaxBatch <= MaxCacheTrades
  /\ RenderRealtimeTrades

\* clearData() on its own
ClearData ==
  /\ teardowns < MaxTeardowns
  /\ Commit([clearData(Enter(Ctl)) EXCEPT !.teardowns = @ + 1])
  /\ UNCHANGED cntVars

\* destroy()
Destroy ==
  /\ teardowns < MaxTeardowns
  /\ Commit([destroy(Enter(Ctl)) EXCEPT !.tornDown = TRUE, !.teardowns = @ + 1])
  /\ UNCHANGED cntVars

\* the stats feed hands the Counter one value at the current tick
OnStats ==
  \E value \in Rates :
    /\ now # lastUpdate
    /\ counter' = onStats(counter, now, value, now)
    /\ timers' = setTimeouts(counter, counter', timers)
    /\ rate' = IF rate = 0 THEN value ELSE rate
    /\ steady' = (steady /\ (rate = 0 \/ (value = rate /\ now = lastUpdate + 1)))
    /\ lastUpdate' = now
    /\ cleared' = NullObj
    /\ UNCHANGED <<now, clears, ctlVars>>

\* the oldest pending timeout fires: the callback is shiftStack
ShiftStack ==
  \E d \in timers :
    /\ d <= now
    /\ \A other \in timers : d <= other
    /\ timers' = timers \ {d}
    /\ counter' = shiftStack(counter)
    /\ cleared' = NullObj
    /\ UNCHANGED <<now, rate, steady, lastUpdate, clears, ctlVars>>

\* the clock advances once the timeouts that are due have fired
Tick ==
  /\ now < MaxTime
  /\ \A d \in timers : d > now
  /\ now' = now + 1
  /\ cleared' = NullObj
  /\ UNCHANGED <<counter, timers, rate, steady, lastUpdate, clears, ctlVars>>

\* clear() is called; the next updates are a new run of the stats feed
ClearCounter ==
  /\ clears < MaxClears
  /\ counter' = clear(counter)
  /\ timers' = clearTimeouts(counter, timers)
  /\ cleared' = [counter |-> counter, timers |-> timers]
  /\ clears' = clears + 1
  /\ rate' = 0
  /\ steady' = TRUE
  /\ lastUpdate' = Null
  /\ UNCHANGED <<now, ctlVars>>

\* the Counter after its constructor, lines 36-63
InitCounter ==
  /\ counter = clear([stacks |-> << >>, live |-> 0, filled |-> FALSE, remaining |-> 0,
                      timestamp |-> Null, timeouts |-> << >>])
  /\ timers = {}
  /\ cleared = NullObj
  /\ clears = 0
  /\ now = 1
  /\ rate = 0
  /\ steady = TRUE
  /\ lastUpdate = Null

InitController ==
  /\ chartInstance = FALSE
  /\ activeSeries = << >>
  /\ activeRenderer = NullObj
  /\ activeChunk = 0
  /\ renderedRange = [from |-> Null, to |-> Null]
  /\ panPrevented = FALSE
  /\ releasePanTimeout = FALSE
  /\ chunks = << >>
  /\ cacheRange = [from |-> Null, to |-> Null]
  /\ serieErrors = << >>
  /\ sink = << >>
  /\ threw = FALSE
  /\ tradeLog = << >>
  /\ closes = << >>
  /\ touched = {}
  /\ lastFolds = << >>
  /\ fed = 0
  /\ delivered = {}
  /\ toggles = 0
  /\ rebuilt = << >>
  /\ queuedTrades = << >>
  /\ preventRender = FALSE
  /\ releaseQueueInterval = FALSE
  /\ queuedLog = << >>
  /\ tornDown = FALSE
  /\ teardowns = 0
  /\ serieOps = 0

Init ==
  /\ InitController
  /\ activeExchanges \in {{"Ausd"}, {"Ausd", "Busd"}}
  /\ enabledSeries \in {{"avg"}, {"avg", "ratio"}}
  /\ InitCounter

Next ==
  \/ CreateChart
  \/ RenderRealtimeTrades
  \/ ReleasePan

vars == <<ctlVars, cntVars>>

Spec == Init /\ [][Next]_vars

\* live aggregation of an ordered feed, source toggles and full rebuilds
NextRebuild ==
  \/ CreateChart
  \/ RenderNextTrade
  \/ ToggleSource
  \/ RenderVisibleChunks
  \/ ReleasePan

SpecRebuild == Init /\ [][NextRebuild]_vars

\* live aggregation of a feed in any order, with full rebuilds in between
NextReplay ==
  \/ CreateChart
  \/ RenderRealtimeTrades
  \/ RenderVisibleChunks
  \/ ReleasePan

InitReplay ==
  /\ InitController
  /\ activeExchanges = {"Ausd", "Busd"}
  /\ enabledSeries = {"avg", "ratio"}
  /\ InitCounter

\* series are switched on and off and rebuilt while an ordered feed is
\* aggregated and the chart is rebuilt
InitSeries ==
  /\ InitController
  /\ activeExchanges = {"Ausd", "Busd"}
  /\ enabledSeries \in {{"signal", "avg"}, {"avg", "ratio"}, {"avg", "bad"}}
  /\ InitCounter

NextSeries ==
  \/ CreateChart
  \/ RenderSerieTrade
  \/ ToggleSerie
  \/ RebuildSerie
  \/ Redraw
  \/ ReleasePan

SpecSeries == InitSeries /\ [][NextSeries]_vars

SpecReplay == InitReplay /\ [][NextReplay]_vars

\* trade batches are queued and drained by the interval, under render locks
InitQueue ==
  /\ InitController
  /\ activeExchanges = {"Ausd", "Busd"}
  /\ enabledSeries = {"avg", "ratio"}
  /\ InitCounter

NextQueue ==
  \/ CreateChart
  \/ SetupQueue
  \/ QueueTrades
  \/ DrainQueue
  \/ ClearQueue
  \/ LockRender
  \/ UnlockRender
  \/ ReleasePan

SpecQueue == InitQueue /\ [][NextQueue]_vars

\* the same with clear() and destroy()
NextTeardown ==
  \/ CreateChart
  \/ SetupQueue
  \/ QueueTrades
  \/ DrainQueue
  \/ Clear
  \/ Destroy
  \/ ReleasePan

SpecTeardown == InitQueue /\ [][NextTeardown]_vars

\* the chart is created with a serie of the settings that has no type, and
\* an ordered feed is aggregated
InitCreate ==
  /\ InitController
  /\ activeExchanges = {"Ausd", "Busd"}
  /\ enabledSeries \in {{"custom", "avg"}, {"custom", "avg", "ratio"}, {"avg", "ratio"}}
  /\ InitCounter

NextCreate ==
  \/ CreateChart
  \/ RenderSerieTrade
  \/ ReleasePan

SpecCreate == InitCreate /\ [][NextCreate]_vars

\* live aggregation of a feed in any order; the live data or the cache and
\* the live data are cleared in between, and the chart is rebuilt
NextCache ==
  \/ CreateChart
  \/ RenderCacheTrades
  \/ ClearData
  \/ Clear
  \/ RenderVisibleChunks
  \/ ReleasePan

SpecCache == InitReplay /\ [][NextCache]_vars

\* single series are redrawn while an ordered feed is aggregated
InitRedraw ==
  /\ InitController
  /\ activeExchanges = {"Ausd", "Busd"}
  /\ enabledSeries \in {{"trend", "signal", "avg"}, {"signal", "avg"}, {"avg", "ratio"}}
  /\ InitCounter

NextRedraw ==
  \/ CreateChart
  \/ RenderSerieTrade
  \/ RedrawSerie
  \/ ReleasePan

SpecRedraw == InitRedraw /\ [][NextRedraw]_vars

\* the Counter alone, under a chart controller that is left idle
InitCounterOnly ==
  /\ InitController
  /\ activeExchanges = {"Ausd"}
  /\ enabledSeries = {"avg"}
  /\ InitCounter

NextCounter ==
  \/ OnStats
  \/ ShiftStack
  \/ Tick
  \/ ClearCounter

SpecCounter == InitCounterOnly /\ [][NextCounter]_vars

\* ------------------------------------------------------------------ claims
RECURSIVE SumOver(_, _, _)
SumOver(sources, ids, f) ==
  IF ids = {} THEN 0
  ELSE LET id == CHOOSE x \in ids : TRUE
       IN  sources[id][f] + SumOver(sources, ids \ {id}, f)

\* the CombinedBar is the sum of the SourceBars of the active sources
Recombined(bar, sources, active) ==
  \A f \in VolumeFields : bar[f] = SumOver(sources, DOMAIN sources \cap active, f)

\* C1: with a fixed active-source set, in the live bucket and in every closed
\* bucket each volume, count and liquidation field of the CombinedBar equals
\* the sum of that field over the bucket's SourceBars of the active sources.
C1_Recombination ==
  /\ ~IsNull(activeRenderer) =>
       Recombined(activeRenderer.bar, activeRenderer.sources, activeExchanges)
  /\ \A i \in DOMAIN closes :
       Recombined(closes[i].bar, closes[i].sources, closes[i].active)

\* what a trade adds to field f of a bar
Contribution(trade, f) ==
  IF trade.liquidation
  THEN (IF f = side(trade, "l") THEN trade.price * trade.size ELSE 0)
  ELSE IF f = side(trade, "v") THEN trade.price * trade.size
  ELSE IF f = side(trade, "c") THEN 1
  ELSE 0

RECURSIVE SumTrades(_, _, _, _)
SumTrades(k, timestamp, active, f) ==
  IF k = 0 THEN 0
  ELSE SumTrades(k - 1, timestamp, active, f) +
       (IF tradeLog[k].bucket = timestamp /\ Identifier(tradeLog[k].trade) \in active
        THEN Contribution(tradeLog[k].trade, f) ELSE 0)

\* the CombinedBars of the closed buckets 1..n, had only the sources of
\* active ever been active; a bucket without a trade of theirs has none
RECURSIVE NeverActiveBars(_, _)
NeverActiveBars(n, active) ==
  IF n = 0 THEN << >>
  ELSE NeverActiveBars(n - 1, active) \o
       (IF \E k \in DOMAIN tradeLog :
             /\ tradeLog[k].bucket = closes[n].timestamp
             /\ Identifier(tradeLog[k].trade) \in active
        THEN <<[timestamp |-> closes[n].timestamp,
                bar |-> [f \in VolumeFields |->
                           SumTrades(Len(tradeLog), closes[n].timestamp, active, f)]]>>
        ELSE << >>)

RebuiltBars(run) ==
  [i \in DOMAIN run.bars |->
     [timestamp |-> run.bars[i].timestamp,
      bar |-> [f \in VolumeFields |-> run.bars[i].bar[f]]]]

\* C2: a full rebuild after a toggle of a source ends without an exception
\* and computes, bucket by bucket, the CombinedBars the closed buckets would
\* have had if only the now active sources had ever been active.
C2_RebuildAsIfNeverActive ==
  \A k \in DOMAIN rebuilt :
    (rebuilt[k].full /\ rebuilt[k].toggles > 0 /\ IsNull(rebuilt[k].series)) =>
      /\ ~rebuilt[k].threw
      /\ RebuiltBars(rebuilt[k]) = NeverActiveBars(rebuilt[k].closes, rebuilt[k].active)

\* C3: once the window was filled by updates of one value at every tick and
\* a full window went by without an update, getValue() is 0 after the
\* timeouts of all slots have fired.
C3_DecaysToZero ==
  (/\ counter.filled
   /\ steady /\ rate # 0
   /\ now >= lastUpdate + CounterWindow
   /\ counter.timeouts = << >>)
    => getValue(counter) = 0

IsOldFold(f) == ~IsNull(f.before) /\ f.bucket < f.before.timestamp

PrevField(f, id, k) ==
  IF Has(f.before.sources, id) THEN f.before.sources[id][k] ELSE 0

C5_NaNSerieDoesNotHalt ==
  \A id \in DOMAIN serieErrors : ~threw /\ Len(tradeLog) = fed

\* C6: when the live Renderer advances, every SourceBar starts the new bucket
\* with open = high = low = its previous close and with all six volume, count
\* and liquidation fields at 0.
C6_SourceBarsCarriedAndZeroed ==
  \A i \in DOMAIN closes :
    \A id \in DOMAIN closes[i].opened :
      LET o == closes[i].opened[id]
          close == closes[i].sources[id].close
      IN  /\ o.open = close /\ o.high = close /\ o.low = close
          /\ \A f \in VolumeFields : o[f] = 0

\* C7: a SourceBar's empty flag is set iff no trade went into it since the
\* bucket opened, and a bucket close persists a bar for exactly the sources
\* that received a trade in the closing bucket.
C7_EmptyIffUntouched ==
  /\ ~IsNull(activeRenderer) =>
       \A id \in DOMAIN activeRenderer.sources :
         EmptyFlag(activeRenderer.sources[id]) <=> id \notin touched
  /\ \A i \in DOMAIN closes :
       {closes[i].persisted[k].exchange : k \in DOMAIN closes[i].persisted}
         = {closes[i].sources[id].exchange : id \in closes[i].touched}

AvgState(series) == series["avg"].functions[1].state

\* the outputs of the average_function of the closed buckets 1..i with data
RECURSIVE ClosedOutputs(_)
ClosedOutputs(i) ==
  IF i = 0 THEN << >>
  ELSE ClosedOutputs(i - 1) \o
       (IF Has(closes[i].series, "avg") /\ closes[i].touched \cap closes[i].active # {}
        THEN <<AvgState(closes[i].series).output>>
        ELSE << >>)

LastOf(seq, n) == SubSeq(seq, Len(seq) - n + 1, Len(seq))

RECURSIVE Total(_)
Total(seq) == IF seq = << >> THEN Num(0) ELSE Add(Head(seq), Total(Tail(seq)))

\* C8: after N bucket closes with data the average_function holds in its
\* queue the outputs of the last min(N, W) of them, its sum is their total
\* and its count their number.
C8_AverageQueue ==
  \A i \in DOMAIN closes :
    Has(closes[i].openedSeries, "avg") =>
      LET st == AvgState(closes[i].openedSeries)
          kept == LastOf(ClosedOutputs(i), Min(Len(ClosedOutputs(i)), AvgWindow))
      IN  /\ st.points = kept
          /\ st.sum = Total(kept)
          /\ st.count = Len(kept)

RECURSIVE AllBars(_)
AllBars(k) == IF k > Len(chunks) THEN << >> ELSE chunks[k].bars \o AllBars(k + 1)

\* a.timestamp <= b.timestamp, false when a timestamp is undefined
TimestampOrdered(a, b) ==
  Has(a, "timestamp") /\ Has(b, "timestamp") /\ a.timestamp <= b.timestamp

\* C9: each chunk's range lies strictly after the previous chunk's, and the
\* bars of all chunks, in cache order, carry non-decreasing timestamps.
C9_ChunksOrdered ==
  /\ \A k \in DOMAIN chunks : chunks[k].from <= chunks[k].to
  /\ \A k \in 1..(Len(chunks) - 1) : chunks[k].to < chunks[k + 1].from
  /\ \A i \in 1..(Len(AllBars(1)) - 1) :
       TimestampOrdered(AllBars(1)[i], AllBars(1)[i + 1])

\* the trades of the scenario of C10
Scenario ==
  << Trade("A", "buy", FALSE, 100, 1, 0),
     Trade("B", "sell", FALSE, 102, 2, 10000),
     Trade("A", "buy", FALSE, 101, 1, 65000) >>
ScenarioRan ==
  /\ activeExchanges = {"Ausd"}
  /\ Len(tradeLog) = Len(Scenario)
  /\ \A i \in DOMAIN Scenario : tradeLog[i].trade = Scenario[i]

\* C10: after the three trades of the scenario (A active, B inactive), the
\* bucket 0 has closed with CombinedBar {vbuy: 100, vsell: 0, cbuy: 1,
\* csell: 0} and SourceBar A close = 100; SourceBar B was recorded and
\* persisted at the close and is not in the CombinedBar; bucket 60 opened
\* with SourceBar A open = 100.
C10_Scenario ==
  ScenarioRan =>
    /\ Len(closes) = 1
    /\ closes[1].timestamp = 0
    /\ closes[1].bar.vbuy = 100 /\ closes[1].bar.vsell = 0
    /\ closes[1].bar.cbuy = 1 /\ closes[1].bar.csell = 0
    /\ closes[1].sources["Ausd"].close = 100
    /\ Has(closes[1].sources, "Busd")
    /\ closes[1].sources["Busd"].vsell = 204 /\ closes[1].sources["Busd"].csell = 1
    /\ \E k \in DOMAIN closes[1].persisted :
         /\ closes[1].persisted[k].exchange = "B"
         /\ closes[1].persisted[k].vsell = 204
    /\ \E k \in DOMAIN chunks[1].bars : chunks[1].bars[k].exchange = "B"
    /\ activeRenderer.timestamp = 60
    /\ closes[1].opened["Ausd"].open = 100

\* C10, its case: the scenario ran
C10_Witness == ScenarioRan
\* C11: across trade batches and rebuilds the timestamp of the live Renderer
\* never decreases, and the live Renderer is never dropped
C11_TimestampNeverDecreases ==
  [][~IsNull(activeRenderer) =>
       /\ ~IsNull(activeRenderer')
       /\ activeRenderer'.timestamp >= activeRenderer.timestamp]_vars

\* a rebuild replayed cached bars under a live Renderer, and a later batch
\* brought a trade older than the live bucket
C11_Witness ==
  /\ \E k \in DOMAIN rebuilt :
       /\ ~IsNull(rebuilt[k].before)
       /\ ~IsNull(rebuilt[k].temporary)
       /\ rebuilt[k].temporary.timestamp < rebuilt[k].before.timestamp
       /\ ~rebuilt[k].threw
  /\ \E i \in DOMAIN lastFolds : IsOldFold(lastFolds[i])
\* a field of the SourceBar of a source in a Renderer, undefined while the
\* Renderer holds no SourceBar for the source
SourceField(renderer, id, k) ==
  IF Has(renderer.sources, id) /\ Has(renderer.sources[id], k)
  THEN renderer.sources[id][k] ELSE NoNumber

PriceAndTradeFields ==
  {"open", "high", "low", "close", "vbuy", "vsell", "cbuy", "csell"}

\* C12: folding a liquidation, also as the first trade seen from its source,
\* adds price * size to the liquidation volume of its side on the SourceBar,
\* and on the CombinedBar when the source is active, and leaves open, high,
\* low, close, buy/sell volume and buy/sell count of both bars as they were
\* before the fold.
C12_LiquidationFrame ==
  \A i \in DOMAIN lastFolds :
    LET f == lastFolds[i]
        id == Identifier(f.trade)
        amount == f.trade.price * f.trade.size
        l == side(f.trade, "l")
    IN  f.trade.liquidation =>
          /\ f.after.sources[id][l] =
               (IF Has(f.advanced.sources, id) THEN f.advanced.sources[id][l] ELSE 0)
                 + amount
          /\ f.after.bar[l] =
               f.advanced.bar[l] + (IF id \in activeExchanges THEN amount ELSE 0)
          /\ \A k \in PriceAndTradeFields :
               /\ SourceField(f.after, id, k) = SourceField(f.advanced, id, k)
               /\ Has(f.advanced.bar, k) => f.after.bar[k] = f.advanced.bar[k]
\* the trades of the fold log, in the order they were folded
RECURSIVE FoldedTrades(_)
FoldedTrades(n) ==
  IF n = 0 THEN << >> ELSE Append(FoldedTrades(n - 1), tradeLog[n].trade)

\* C13: trades are folded in the order they were queued, each exactly once:
\* the trades folded so far followed by the trades still queued are the trades
\* queued so far, in their order.
C13_FoldedInQueueOrderOnce ==
  FoldedTrades(Len(tradeLog)) \o queuedTrades = queuedLog
\* C14: once clear() or destroy() returned, no timer of the Controller is
\* pending: neither the drain interval nor the pan-suppression timeout.
C14_NoTimerAfterTeardown ==
  tornDown => ~releasePanTimeout /\ ~releaseQueueInterval
\* C15: clear() called in any state leaves no slot, live = 0, filled = false,
\* remaining = 0 and no pending expiry; at any time every pending expiry is
\* the one of a slot the Counter holds now, so that no expiry scheduled before
\* a clear() fires after it and evicts a slot opened later.
C15_ClearCancelsEverything ==
  /\ ~IsNull(cleared) =>
       /\ counter.stacks = << >>
       /\ counter.live = 0
       /\ counter.filled = FALSE
       /\ counter.remaining = 0
       /\ counter.timeouts = << >>
       /\ timers = {}
  /\ timers = {counter.timeouts[i] : i \in DOMAIN counter.timeouts}
  /\ Cardinality(timers) = Len(counter.stacks)

\* clear() was called on a filled window with slots and pending expiries
C15_Witness ==
  /\ ~IsNull(cleared)
  /\ cleared.counter.filled
  /\ Len(cleared.counter.stacks) > 1
  /\ cleared.counter.live > 0
  /\ Cardinality(cleared.timers) > 1
\* C16: a rebuild whose replayed bars end before the bucket of the live
\* Renderer leaves the live Renderer as it was, the instruction state of its
\* series included.
C16_RebuildKeepsLiveState ==
  \A k \in DOMAIN rebuilt :
    (/\ ~IsNull(rebuilt[k].before)
     /\ ~IsNull(rebuilt[k].temporary)
     /\ rebuilt[k].temporary.timestamp < rebuilt[k].before.timestamp)
      => rebuilt[k].after = rebuilt[k].before
\* C17: a serie that references another serie is evaluated after it: signal,
\* whose formula is the value of avg, holds the value avg holds whenever both
\* are bound to the live Renderer.
C17_ReferencedSerieFirst ==
  (/\ ~IsNull(activeRenderer)
   /\ Has(activeRenderer.series, "signal")
   /\ Has(activeRenderer.series, "avg"))
    => activeRenderer.series["signal"].value = activeRenderer.series["avg"].value
\* the objects holding the instruction state of the series bound to a Renderer
StateObjects(renderer) ==
  IF IsNull(renderer) THEN {}
  ELSE {renderer.series[id].ref : id \in DOMAIN renderer.series}

FailingSeries ==
  {id \in Range(SerieIds) :
     Has(SerieSettings(id), "type") /\ ~transpile(SerieSettings(id)).ok}

\* C19: addSerie for a serie whose formula fails to compile reports the
\* failure for its id and returns without success: the serie is not in
\* activeSeries, the render sink was not asked to create it, no Renderer
\* holds state for it and no redraw was run for it.
C19_FailedCompileLeavesSerieOut ==
  \A id \in FailingSeries :
    /\ \A i \in DOMAIN activeSeries : activeSeries[i].id # id
    /\ \A i \in DOMAIN sink : ~(sink[i][1] = "addSeries" /\ sink[i][2] = id)
    /\ ~IsNull(activeRenderer) => ~Has(activeRenderer.series, id)
    /\ \A k \in DOMAIN rebuilt :
         /\ ~IsNull(rebuilt[k].series) => id \notin rebuilt[k].series.ids
         /\ ~IsNull(rebuilt[k].temporary) => ~Has(rebuilt[k].temporary.series, id)
    /\ (chartInstance /\ id \in enabledSeries) =>
         /\ Has(serieErrors, id)
         /\ serieErrors[id] = transpile(SerieSettings(id)).message

\* addSerie was called for the failing serie by toggleSerie or rebuildSerie
\* while a live Renderer existed
C19_Witness ==
  /\ serieOps > 0
  /\ ~IsNull(activeRenderer)
  /\ Has(serieErrors, "bad")
  /\ "bad" \in FailingSeries
\* the series a Renderer does not hold although they are active and their
\* error says they gave NaN
UnboundForNaN(series, errors, renderer) ==
  {id \in DOMAIN errors :
     /\ errors[id] = id \o " is NaN"
     /\ \E i \in DOMAIN series : series[i].id = id
     /\ ~IsNull(renderer)
     /\ ~Has(renderer.series, id)}

\* C20: a serie unbound from the live Renderer because its adapter gave NaN
\* stays unbound over every trade batch and every full rebuild; only
\* toggleSerie, rebuildSerie or addSerie bind it again.
C20_UnboundUntilRetried ==
  /\ \A i \in DOMAIN lastFolds :
       UnboundForNaN(activeSeries, serieErrors, lastFolds[i].before)
         \subseteq UnboundForNaN(activeSeries, serieErrors, lastFolds[i].after)
  /\ \A k \in DOMAIN rebuilt :
       (IsNull(rebuilt[k].series) /\ ~rebuilt[k].threw) =>
         \A id \in UnboundForNaN(activeSeries, rebuilt[k].errors, rebuilt[k].before) :
           ~Has(rebuilt[k].after.series, id)

\* C21: a serie without a visual type makes its addSerie call fail and
\* nothing else: createChart leaves the active series, the live Renderer and
\* the chunk cache as it leaves them when that serie is not in the settings
TypedSeries == {id \in Range(SerieIds) : Has(SerieSettings(id), "type")}

C21_UnknownTypeFatalOnlyToCall ==
  [][(~chartInstance /\ chartInstance') =>
       LET asIf == createChart([Enter(Ctl) EXCEPT !.enabledSeries = @ \cap TypedSeries])
       IN  /\ activeSeries' = asIf.activeSeries
           /\ activeRenderer' = asIf.activeRenderer
           /\ chunks' = asIf.chunks]_vars

\* C22: while the window of the Counter was never fully populated, getValue()
\* is the sum of the slots the Counter holds, whatever updates and expiries
\* came before.
RECURSIVE SlotSum(_)
SlotSum(stacks) == IF stacks = << >> THEN 0 ELSE Head(stacks) + SlotSum(Tail(stacks))

C22_RawSumUntilFilled ==
  ~counter.filled => getValue(counter) = SlotSum(counter.stacks)

\* C23: a live bucket close with no active Chunk, or with an active Chunk
\* that holds MAX_BARS_PER_CHUNKS bars or more, opens a new Chunk with
\* from = to = the timestamp of the closing bucket, makes it the active Chunk
\* before the bars are appended and seals the Chunk that was active; any
\* other close appends to the active Chunk and opens nothing.
OpensChunk(was) ==
  \/ was.activeChunk = 0
  \/ Len(was.chunks[was.activeChunk].bars) >= MAX_BARS_PER_CHUNKS

C23_NewChunkWhenAbsentOrFull ==
  \A i \in DOMAIN closes :
    IF OpensChunk(closes[i].was)
    THEN /\ closes[i].chunk = Len(closes[i].was.chunks) + 1
         /\ Len(closes[i].selected) = closes[i].chunk
         /\ closes[i].selected[closes[i].chunk].from = closes[i].timestamp
         /\ closes[i].selected[closes[i].chunk].to = closes[i].timestamp
         /\ closes[i].selected[closes[i].chunk].active
         /\ closes[i].selected[closes[i].chunk].bars = << >>
         /\ closes[i].was.activeChunk # 0 =>
              ~closes[i].selected[closes[i].was.activeChunk].active
    ELSE /\ closes[i].chunk = closes[i].was.activeChunk
         /\ closes[i].selected = closes[i].was.chunks

\* C24: the close of a live bucket applies the bucket-advance transition to
\* the instruction state of every bound serie exactly once if an active
\* source traded in the bucket, and leaves the instruction state of every
\* serie unchanged if none did.
AdvancedOnce(series) ==
  [id \in DOMAIN series |->
     [series[id] EXCEPT !.functions = [f \in DOMAIN @ |-> advanceFunction(@[f])],
                        !.variables = [v \in DOMAIN @ |-> advanceVariable(@[v])]]]

HadData(close) == close.touched \cap close.active # {}

C24_AdvanceOncePerBucketWithData ==
  \A i \in DOMAIN closes :
    closes[i].openedSeries = IF HadData(closes[i]) THEN AdvancedOnce(closes[i].series)
                             ELSE closes[i].series

\* C25: the empty flag of the CombinedBar is set exactly when no active
\* source traded in the live bucket, and a bucket close computes the series
\* only for a bucket in which an active source traded.
C25_EmptyIffNoActiveTrade ==
  /\ ~IsNull(activeRenderer) =>
       (EmptyFlag(activeRenderer.bar) <=> touched \cap activeExchanges = {})
  /\ \A i \in DOMAIN closes : closes[i].computed => HadData(closes[i])

\* C26: every slot of the Counter has exactly one expiry, set one window
\* after the slot was opened; an expiry fires once, whether updates arrive or
\* not, and evicts the oldest slot; so the pending expiries are always as
\* many as the slots the Counter holds.
C26_OneExpiryPerSlot ==
  /\ [](/\ Len(counter.timeouts) = Len(counter.stacks)
        /\ timers = Range(counter.timeouts)
        /\ Cardinality(timers) = Len(counter.stacks)
        /\ \A d \in timers : now <= d /\ d <= now + CounterWindow)
  /\ [][Len(counter'.stacks) > Len(counter.stacks) =>
          /\ Len(counter'.stacks) = Len(counter.stacks) + 1
          /\ now + CounterWindow \notin timers
          /\ timers' = timers \cup {now + CounterWindow}]_vars
  /\ [][(Len(counter'.stacks) < Len(counter.stacks) /\ clears' = clears) =>
          /\ counter'.stacks = Tail(counter.stacks)
          /\ timers' = timers \ {Head(counter.timeouts)}
          /\ Head(counter.timeouts) = now
          /\ \A d \in timers : Head(counter.timeouts) <= d]_vars

\* an expiry fired and evicted a slot while later slots are still held
C26_Witness ==
  /\ Len(counter.stacks) > 1
  /\ counter.remaining > 0
  /\ Cardinality(timers) = Len(counter.stacks)

\* the series a serie references, directly or through other series
RECURSIVE References(_)
References(ids) ==
  LET direct == UNION {Range(transpile(SerieSettings(id)).references) : id \in ids}
  IN  IF direct \subseteq ids THEN ids ELSE References(ids \cup direct)

\* C27: redrawSerie(id) recomputes the serie, the series it references and
\* the series those reference in turn, and no other serie: these are the
\* series the replay is restricted to and the replay Renderer is bound to.
C27_RedrawWithTransitiveReferences ==
  \A k \in DOMAIN rebuilt :
    ~IsNull(rebuilt[k].series) =>
      /\ rebuilt[k].series.ids = References({rebuilt[k].series.id})
      /\ ~IsNull(rebuilt[k].created) =>
           DOMAIN rebuilt[k].created.series = References({rebuilt[k].series.id})

\* C28: at most one chunk of the cache has active = true, and the active
\* Chunk of the Controller, when it has one, is that chunk and is the last
\* chunk of the cache.
C28_OneActiveChunk ==
  /\ Cardinality({k \in DOMAIN chunks : chunks[k].active}) <= 1
  /\ activeChunk # 0 => (chunks[activeChunk].active /\ activeChunk = Len(chunks))

\* the point carries NaN as its value
NaNPoint(point) == Has(point, "value") /\ IsNaN(point.value)

\* C29: no point whose value is NaN reaches the render sink, neither in an
\* update after a live computation nor in the data set after a rebuild.
C29_NoNaNToSink ==
  \A i \in DOMAIN sink :
    /\ sink[i][1] = "update" => ~NaNPoint(sink[i][3])
    /\ sink[i][1] = "setData" => \A k \in DOMAIN sink[i][3] : ~NaNPoint(sink[i][3][k])

\* C30: redrawSerie leaves the compiled model of every serie as prepareSerie
\* made it, its references included, however many redraws were run.
C30_RedrawKeepsModel ==
  \A i \in DOMAIN activeSeries :
    activeSeries[i].model = prepareSerie([activeSeries[i] EXCEPT !.model = NullObj]).serie.model

\* the trades folded so far, in the order they were folded
Folded == FoldedTrades(Len(tradeLog))

\* the step ran renderRealtimeTrades on the queue, or stopped the interval
Released == lastFolds' # << >> \/ threw'
Stopped == releaseQueueInterval /\ ~releaseQueueInterval'

\* C31: while rendering is locked no step folds a trade or takes one out of
\* the queue, and the queue always holds the latest queued trades in arrival
\* order; a releaseQueue that runs while rendering is unlocked folds every
\* queued trade and leaves the queue empty; clearQueue stops the drain
\* interval, folds every queued trade and leaves the queue empty.
C31_LockKeepsQueueAndClearFlushes ==
  [][/\ preventRender =>
          /\ tradeLog' = tradeLog
          /\ Len(queuedTrades') >= Len(queuedTrades)
          /\ SubSeq(queuedTrades', 1, Len(queuedTrades)) = queuedTrades
     /\ Len(queuedTrades') <= Len(queuedLog')
     /\ SubSeq(queuedLog', Len(queuedLog') - Len(queuedTrades') + 1, Len(queuedLog'))
          = queuedTrades'
     /\ (Released \/ Stopped) =>
          /\ Folded' = Folded \o queuedTrades
          /\ queuedTrades' = << >>]_vars

====
